---- MODULE Spec2Model ----
(***************************************************************************)
(* The blog-post API of app/api.py as a state machine.                     *)
(*                                                                         *)
(* State: the two module-level lists `posts` and `users`, the wall clock   *)
(* read by the token code, and the request/response pair of the step just  *)
(* taken.  Every route handler is an `async def` without a single `await`  *)
(* in its body, so on the event loop a handler runs from its first line to *)
(* its return without another handler running in between: one action per   *)
(* route, the access guard of a protected route included.                  *)
(***************************************************************************)
EXTENDS Integers, Sequences, FiniteSets, TLC

VARIABLES
    posts,      \* api.py's module-level list of posts
    users,      \* api.py's module-level list of users
    now,        \* the wall clock the token code reads
    exchange,   \* <<request, response>> of the step just taken
    signedUp,   \* history: every (email, password) a signup has stored
    inflight,   \* SpecConcurrent: add_post requests past the guard, handler not yet run
    deleted     \* SpecConcurrent history: a delete_post has removed a post

vars == <<posts, users, now, exchange, signedUp, inflight, deleted>>

\* The request answered by the step just taken, and its response: HTTP status
\* and JSON body.
req == exchange[1]
resp == exchange[2]

\* The bookkeeping of requests in flight; the sequential view leaves it alone.
conc == <<inflight, deleted>>

---------------------------------------------------------------------------
(* Bounds and input domains *)

MaxPosts == 2       \* posts the list may hold under Spec
MaxUsers == 2       \* users the list may hold
MaxTime == 1        \* last clock value
MaxInFlight == 2    \* add_post requests in flight at once under SpecConcurrent
MaxRacePosts == 3   \* posts the list may hold under SpecConcurrent

Ids == (0 - 1)..(MaxPosts + 1)

PostBodies ==
    { [title |-> "Pancake", content |-> "Lorem Ipsum ..."],
      [title |-> "T", content |-> "C"] }

\* Two accounts sharing an email, two sharing a password.
UserBodies ==
    { [email |-> "a@x.com", password |-> "p"],
      [email |-> "a@x.com", password |-> "q"],
      [email |-> "b@x.com", password |-> "p"] }

\* Python's None, which FastAPI serialises as the JSON body null.
None == [none |-> TRUE]

---------------------------------------------------------------------------
(* Token Service and Access Guard: app/auth/auth_handler.py and            *)
(* app/auth/auth_bearer.py, modelled from sections 4.3 and 4.4 of the     *)
(* specification.  A token is its payload together with its signature.    *)

JWT_SECRET == "secret"
TokenTTL == 1

signJWT(user_id, t) ==
    [access_token |-> [user_id |-> user_id, expires |-> t + TokenTTL, sig |-> JWT_SECRET]]

decodeJWT(token, t) ==
    IF token.sig = JWT_SECRET /\ token.expires >= t
    THEN [user_id |-> token.user_id, expires |-> token.expires]
    ELSE None

NoHeader == [present |-> FALSE]

\* Credentials a client may present: a token signed by this server that runs
\* out at time 0 (tokens are stateless, so it may have been issued before this
\* process started), and one with a later expiry but a foreign signature.
SampleTokens ==
    { [user_id |-> "a@x.com", expires |-> 0, sig |-> JWT_SECRET],
      [user_id |-> "a@x.com", expires |-> MaxTime + TokenTTL, sig |-> "forged"] }

AuthHeaders ==
    {NoHeader}
    \cup { [present |-> TRUE, scheme |-> "Bearer", credentials |-> tok] : tok \in SampleTokens }
    \cup { [present |-> TRUE, scheme |-> "Basic", credentials |-> tok] :
             tok \in { s \in SampleTokens : s.sig = JWT_SECRET } }

\* TRUE when the guard lets the request through, FALSE when it raises 403.
JWTBearer(auth, t) ==
    /\ auth.present
    /\ auth.scheme = "Bearer"
    /\ decodeJWT(auth.credentials, t) # None

Forbidden == [status |-> 403, body |-> [detail |-> "Invalid authentication."]]

---------------------------------------------------------------------------
(* Routing: which routes carry dependencies=[Depends(JWTBearer())] *)

\* Mutant: the DELETE route registered without its dependency.
Protected_without_delete(route) == route \in {"add_post", "update_post"}

Protected(route) == route \in {"add_post", "update_post", "delete_post"}

Admitted(route, auth) == Protected(route) => JWTBearer(auth, now)

OK(body) == [status |-> 200, body |-> body]

---------------------------------------------------------------------------
(* Post Store *)

\* `for post in posts: if post["id"] == id`: the index the scan stops at, 0 when
\* it runs off the end.
RECURSIVE Scan(_, _, _)
Scan(ps, id, i) ==
    IF i > Len(ps) THEN 0
    ELSE IF ps[i].id = id THEN i
    ELSE Scan(ps, id, i + 1)

\* list.remove(x): drops the first element equal to x.
RECURSIVE Remove(_, _)
Remove(ps, x) ==
    IF ps = <<>> THEN <<>>
    ELSE IF Head(ps) = x THEN Tail(ps)
    ELSE <<Head(ps)>> \o Remove(Tail(ps), x)

read_root_body == [message |-> "Welcome to your blog!."]

get_posts_body(ps) == [data |-> ps]

get_single_post_body(ps, id) ==
    IF id > Len(ps)
    THEN [error |-> "No such post with the supplied ID."]
    ELSE IF Scan(ps, id, 1) # 0
         THEN [data |-> ps[Scan(ps, id, 1)]]
         ELSE None

\* Mutant: the id taken from the length without the + 1.
add_post_id_off_by_one(ps) == Len(ps)

add_post_id(ps) == Len(ps) + 1

add_post_posts(ps, post) ==
    Append(ps, [id |-> add_post_id(ps), title |-> post.title, content |-> post.content])

add_post_body == [data |-> "post added."]

\* The f-strings of update_post and delete_post.
Updated(id) == "post with id " \o ToString(id) \o " has been updated."
Removed(id) == "post with id " \o ToString(id) \o " has been removed."
NotFound(id) == "post with id " \o ToString(id) \o " not found."

\* Mutant: an update that stores the body as a new post when no id matches.
update_post_posts_upsert(ps, id, body) ==
    IF Scan(ps, id, 1) # 0
    THEN [ps EXCEPT ![Scan(ps, id, 1)] =
              [id |-> @.id, title |-> body.title, content |-> body.content]]
    ELSE Append(ps, [id |-> id, title |-> body.title, content |-> body.content])

update_post_posts(ps, id, body) ==
    IF Scan(ps, id, 1) # 0
    THEN [ps EXCEPT ![Scan(ps, id, 1)] =
              [id |-> @.id, title |-> body.title, content |-> body.content]]
    ELSE ps

update_post_body(ps, id) ==
    IF Scan(ps, id, 1) # 0 THEN [data |-> Updated(id)] ELSE [data |-> NotFound(id)]

delete_post_posts(ps, id) ==
    IF Scan(ps, id, 1) # 0 THEN Remove(ps, ps[Scan(ps, id, 1)]) ELSE ps

delete_post_body(ps, id) ==
    IF Scan(ps, id, 1) # 0 THEN [data |-> Removed(id)] ELSE [data |-> NotFound(id)]

---------------------------------------------------------------------------
(* User Store *)

\* Mutant: a match on the email alone.
RECURSIVE check_user_email_only(_, _)
check_user_email_only(us, data) ==
    IF us = <<>> THEN FALSE
    ELSE IF Head(us).email = data.email THEN TRUE
    ELSE check_user_email_only(Tail(us), data)

RECURSIVE check_user(_, _)
check_user(us, data) ==
    IF us = <<>> THEN FALSE
    ELSE IF Head(us).email = data.email /\ Head(us).password = data.password THEN TRUE
    ELSE check_user(Tail(us), data)

\* Mutant: a signup that skips an email already stored.
create_user_users_unique_email(us, user) ==
    IF \E i \in DOMAIN us : us[i].email = user.email THEN us ELSE Append(us, user)

create_user_users(us, user) == Append(us, user)

user_login_body(us, user, t) ==
    IF check_user(us, user)
    THEN signJWT(user.email, t)
    ELSE [error |-> "Wrong login details!"]

---------------------------------------------------------------------------
(* Initial state and the routes *)

Slots == 1..MaxInFlight
Idle == [idle |-> TRUE]

NoRequest == [route |-> "none"]
NoResponse == [status |-> 0, body |-> None]

Init ==
    /\ posts = << [id |-> 1, title |-> "Pancake", content |-> "Lorem Ipsum ..."] >>
    /\ users = <<>>
    /\ now = 0
    /\ exchange = <<NoRequest, NoResponse>>
    /\ signedUp = {}
    /\ inflight = [s \in Slots |-> Idle]
    /\ deleted = FALSE

\* Time passes between requests.
Tick ==
    /\ now < MaxTime
    /\ now' = now + 1
    /\ exchange' = <<NoRequest, NoResponse>>
    /\ UNCHANGED <<posts, users, signedUp, conc>>

read_root ==
    /\ exchange' = <<[route |-> "read_root"], OK(read_root_body)>>
    /\ UNCHANGED <<posts, users, now, signedUp, conc>>

get_posts ==
    /\ exchange' = <<[route |-> "get_posts"], OK(get_posts_body(posts))>>
    /\ UNCHANGED <<posts, users, now, signedUp, conc>>

get_single_post ==
    \E id \in Ids :
        /\ exchange' = <<[route |-> "get_single_post", id |-> id],
                         OK(get_single_post_body(posts, id))>>
        /\ UNCHANGED <<posts, users, now, signedUp, conc>>

\* The guard of a protected route raises 403 while the request's dependencies
\* are resolved: the handler is never called and its arguments never reach it.
Rejected(route) ==
    \E auth \in AuthHeaders :
        /\ ~Admitted(route, auth)
        /\ exchange' = <<[route |-> route, auth |-> auth, time |-> now], Forbidden>>
        /\ UNCHANGED <<posts, users, now, signedUp, conc>>

add_post ==
    \/ Rejected("add_post")
    \/ \E auth \in AuthHeaders, post \in PostBodies :
        /\ Admitted("add_post", auth)
        /\ Len(posts) < MaxPosts
        /\ posts' = add_post_posts(posts, post)
        /\ exchange' = <<[route |-> "add_post", auth |-> auth, time |-> now, body |-> post],
                         OK(add_post_body)>>
        /\ UNCHANGED <<users, now, signedUp, conc>>

update_post ==
    \/ Rejected("update_post")
    \/ \E auth \in AuthHeaders, id \in Ids, body \in PostBodies :
        /\ Admitted("update_post", auth)
        /\ posts' = update_post_posts(posts, id, body)
        /\ exchange' = <<[route |-> "update_post", auth |-> auth, time |-> now,
                          id |-> id, body |-> body],
                         OK(update_post_body(posts, id))>>
        /\ UNCHANGED <<users, now, signedUp, conc>>

delete_post ==
    \/ Rejected("delete_post")
    \/ \E auth \in AuthHeaders, id \in Ids :
        /\ Admitted("delete_post", auth)
        /\ posts' = delete_post_posts(posts, id)
        /\ exchange' = <<[route |-> "delete_post", auth |-> auth, time |-> now, id |-> id],
                         OK(delete_post_body(posts, id))>>
        /\ UNCHANGED <<users, now, signedUp, conc>>

create_user ==
    \E user \in UserBodies :
        /\ Len(users) < MaxUsers
        /\ users' = create_user_users(users, user)
        /\ signedUp' = signedUp \cup {user}
        /\ exchange' = <<[route |-> "create_user", body |-> user],
                         OK(signJWT(user.email, now))>>
        /\ UNCHANGED <<posts, now, conc>>

user_login ==
    \E user \in UserBodies :
        /\ exchange' = <<[route |-> "user_login", body |-> user],
                         OK(user_login_body(users, user, now))>>
        /\ UNCHANGED <<posts, users, now, signedUp, conc>>

Next ==
    \/ Tick
    \/ read_root
    \/ get_posts
    \/ get_single_post
    \/ add_post
    \/ update_post
    \/ delete_post
    \/ create_user
    \/ user_login

Spec == Init /\ [][Next]_vars

---------------------------------------------------------------------------
(* Requests in flight.  A request whose guard has passed waits for the    *)
(* event loop to call its handler; the handler then runs to its return.   *)

\* The guard has let an add_post request through; its handler is yet to run.
accept_add_post ==
    \E s \in Slots, auth \in AuthHeaders, post \in PostBodies :
        /\ inflight[s] = Idle
        /\ Admitted("add_post", auth)
        /\ inflight' = [inflight EXCEPT ![s] =
                            [auth |-> auth, time |-> now, body |-> post,
                             overlapped |-> FALSE]]
        /\ UNCHANGED <<posts, users, now, exchange, signedUp, deleted>>

\* The event loop calls the handler of an accepted add_post.  `overlapped`
\* records that another add_post ran while this one was in flight.
run_add_post ==
    \E s \in Slots :
        /\ inflight[s] # Idle
        /\ Len(posts) < MaxRacePosts
        /\ posts' = add_post_posts(posts, inflight[s].body)
        /\ exchange' = <<[route |-> "add_post", auth |-> inflight[s].auth,
                          time |-> inflight[s].time, body |-> inflight[s].body,
                          overlapped |-> inflight[s].overlapped],
                         OK(add_post_body)>>
        /\ inflight' = [t \in Slots |->
                            IF t = s \/ inflight[t] = Idle THEN Idle
                            ELSE [inflight[t] EXCEPT !.overlapped = TRUE]]
        /\ UNCHANGED <<users, now, signedUp, deleted>>

\* An authorized delete_post, running while add_post requests may be in flight.
run_delete_post ==
    \E auth \in AuthHeaders, id \in 1..MaxRacePosts :
        /\ Admitted("delete_post", auth)
        /\ posts' = delete_post_posts(posts, id)
        /\ exchange' = <<[route |-> "delete_post", auth |-> auth, time |-> now, id |-> id],
                         OK(delete_post_body(posts, id))>>
        /\ deleted' = (deleted \/ posts' # posts)
        /\ UNCHANGED <<users, now, signedUp, inflight>>

NextConcurrent ==
    \/ accept_add_post
    \/ run_add_post
    \/ run_delete_post

SpecConcurrent == Init /\ [][NextConcurrent]_vars

---------------------------------------------------------------------------
(* Claims *)

HasId(ps, id) == \E i \in DOMAIN ps : ps[i].id = id

FirstWithId(ps, id) ==
    CHOOSE i \in DOMAIN ps : ps[i].id = id /\ \A j \in 1..(i - 1) : ps[j].id # id

IsPrefix(a, b) == Len(a) <= Len(b) /\ \A i \in DOMAIN a : a[i] = b[i]

IdsSequential(ps) == \A i \in DOMAIN ps : ps[i].id = i

\* C1: after an authorized add_post(title, content), get_single_post on the id
\* just assigned (the list length before the create, plus 1) returns a post with
\* exactly that title and content.
C1_CreateThenGet ==
    (req.route = "add_post" /\ resp.status = 200) =>
        LET got == get_single_post_body(posts, Len(posts))
        IN  /\ "data" \in DOMAIN got
            /\ got.data.title = req.body.title
            /\ got.data.content = req.body.content

\* C2: a request to POST /posts, PUT /posts/{id} or DELETE /posts/{id} with no
\* Authorization header, a non-Bearer header or a token that decodes as invalid
\* is answered 403 and leaves the posts list as it was; the posts list changes
\* only in the step of a request whose bearer token is valid.
C2_BadCredential(r) ==
    \/ ~r.auth.present
    \/ r.auth.scheme # "Bearer"
    \/ decodeJWT(r.auth.credentials, r.time) = None

C2_GuardedRoutes == {"add_post", "update_post", "delete_post"}

C2_RejectedBeforeMutation ==
    [][ /\ (req'.route \in C2_GuardedRoutes /\ C2_BadCredential(req'))
            => (resp'.status = 403 /\ posts' = posts)
        /\ (posts' # posts)
            => (/\ req'.route \in C2_GuardedRoutes
                /\ ~C2_BadCredential(req')
                /\ resp'.status = 200) ]_vars

\* C2 witness: a DELETE carrying an expired, correctly signed bearer token has
\* been answered 403 while the list holds posts it could have removed.
C2_Witness ==
    /\ req.route = "delete_post"
    /\ resp.status = 403
    /\ req.auth.present
    /\ req.auth.scheme = "Bearer"
    /\ req.auth.credentials.sig = JWT_SECRET
    /\ req.auth.credentials.expires < req.time
    /\ posts # <<>>

\* C3: after an authorized delete_post(id) that reports the post as removed, the
\* list returned by get_posts holds no post with that id.
C3_DeletedIdNotListed ==
    (req.route = "delete_post" /\ resp.status = 200 /\ resp.body = [data |-> Removed(req.id)]) =>
        \A i \in DOMAIN get_posts_body(posts).data :
            get_posts_body(posts).data[i].id # req.id

\* C4: an authorized update_post or delete_post whose id matches no post
\* answers "post with id {id} not found." and leaves the posts list unchanged.
C4_NotFoundLeavesPosts ==
    [][ (/\ req'.route \in {"update_post", "delete_post"}
         /\ resp'.status = 200
         /\ ~HasId(posts, req'.id))
        => (resp'.body = [data |-> NotFound(req'.id)] /\ posts' = posts) ]_vars

\* C4 witness: an update naming an id within the current count, but held by no
\* post, has been answered not-found.
C4_Witness ==
    /\ req.route = "update_post"
    /\ resp.status = 200
    /\ resp.body = [data |-> NotFound(req.id)]
    /\ req.id \in 1..Len(posts)

\* C5: user_login answers with a token for the email if and only if an earlier
\* signup stored exactly that email and password; otherwise it answers
\* {"error": "Wrong login details!"} and no token.
C5_LoginIffSignedUp ==
    (req.route = "user_login") =>
        LET matched == \E u \in signedUp :
                           u.email = req.body.email /\ u.password = req.body.password
            token == /\ "access_token" \in DOMAIN resp.body
                     /\ resp.body.access_token.user_id = req.body.email
        IN  /\ matched <=> token
            /\ ~matched => resp.body = [error |-> "Wrong login details!"]

\* C5 witness: a login has been given a token although the first stored record
\* has the same email with another password.
C5_Witness ==
    /\ req.route = "user_login"
    /\ "access_token" \in DOMAIN resp.body
    /\ Len(users) >= 2
    /\ users[1].email = req.body.email
    /\ users[1].password # req.body.password

\* C6: when some post has the id, get_single_post(id) returns {"data": p} with p
\* the first post in list order having that id.
C6_GetReturnsFirstMatch ==
    (req.route = "get_single_post" /\ HasId(posts, req.id)) =>
        resp.body = [data |-> posts[FirstWithId(posts, req.id)]]

\* C7: when no post has the id, get_single_post(id) returns
\* {"error": "No such post with the supplied ID."}, never an empty body.
C7_GetAbsentReturnsError ==
    (req.route = "get_single_post" /\ ~HasId(posts, req.id)) =>
        resp.body = [error |-> "No such post with the supplied ID."]

\* C8: no two posts in the posts list have the same id.
C8_IdsUnique ==
    \A i, j \in DOMAIN posts : i # j => posts[i].id # posts[j].id

\* C9 as stated: with two authorized add_post requests in flight at the same
\* time and no delete so far, there is an interleaving in which both posts are
\* appended with the same id.  A handler has no await, so the interleavings of
\* two requests in flight are the two orders in which their handlers run.
C9_LastTwoIds(ps) == <<ps[Len(ps) - 1].id, ps[Len(ps)].id>>

C9_SomeInterleavingCollides ==
    (~deleted /\ inflight[1] # Idle /\ inflight[2] # Idle) =>
        \E s, t \in 1..2 :
            /\ s # t
            /\ LET ran == add_post_posts(add_post_posts(posts, inflight[s].body),
                                         inflight[t].body)
               IN  C9_LastTwoIds(ran)[1] = C9_LastTwoIds(ran)[2]

\* C9 as amended: a handler runs without suspension, so two add_post requests
\* in flight at the same time are serialised; with no delete so far the two
\* posts are appended with different ids, the ids in the list being 1..n in
\* order.
C9_InFlightAddsGetDistinctIds ==
    (req.route = "add_post" /\ resp.status = 200 /\ req.overlapped /\ ~deleted) =>
        /\ posts[Len(posts)].id # posts[Len(posts) - 1].id
        /\ IdsSequential(posts)

\* C9 witness: an add_post has run that was in flight together with another
\* add_post which ran before it, and no delete has occurred.
C9_Witness ==
    /\ req.route = "add_post"
    /\ resp.status = 200
    /\ req.overlapped
    /\ ~deleted
    /\ Len(posts) = 3

\* C10: every signup appends exactly its (email, password) record at the end of
\* the users list and returns a token, duplicates included; no other step
\* changes the users list, so the earlier list is always a prefix of the later.
C10_UsersAppendOnly ==
    [][ /\ IsPrefix(users, users')
        /\ (req'.route = "create_user")
            => (/\ users' = Append(users, [email |-> req'.body.email,
                                           password |-> req'.body.password])
                /\ "access_token" \in DOMAIN resp'.body
                /\ resp'.body.access_token.user_id = req'.body.email)
        /\ (req'.route # "create_user") => (users' = users) ]_vars

\* C10 witness: a signup has stored a second record with an email already held.
C10_Witness ==
    /\ req.route = "create_user"
    /\ Len(users) = 2
    /\ users[1].email = users[2].email

====
